---- MODULE Spec2Model ----
(***************************************************************************)
(* Model of scripts/extract_pdf.py: the path confinement check             *)
(* (validate_path) and the heading-stack section builder (parse_sections). *)
(* Strings are sequences of one-character strings, so that prefix tests,   *)
(* trimming, splitting and truncation are computed character by character. *)
(***************************************************************************)
EXTENDS Integers, Sequences, FiniteSets, TLC

VARIABLES
    markdown,         \* parse_sections: the argument
    lines,            \* parse_sections: markdown.split('\n')
    i,                \* parse_sections: index of the next line of the for loop
    current_section,  \* parse_sections: <<>> is None, <<s>> is the open section
    content_lines,    \* parse_sections: lines gathered since the last heading
    heading_stack,    \* parse_sections: open headings, bottom first
    sections,         \* parse_sections: the list returned
    contexts,         \* history: heading_context of each opened section before line 134
    pc,               \* parse_sections: "idle" | "loop" | "done"
    pdf_path,         \* validate_path: the argument
    temp_dir,         \* validate_path: tempfile.gettempdir()
    real_path,        \* validate_path: <<>> until line 76 ran, then <<realpath>>
    real_temp,        \* validate_path: <<>> until line 77 ran, then <<realpath>>
    verdict,          \* validate_path: <<>> until it returns, then <<[valid, reason]>>
    vpc,              \* validate_path: "idle" | "isabs" | "resolve" | "inroot" | "isfile" | "done"
    argv,             \* main: sys.argv[1:]
    extracted,        \* extract_pdf: <<>> until line 193 returned, then <<its markdown>>
    page_count,       \* extract_pdf: <<>> until line 199 ran, then <<len(doc)>>
    result,           \* extract_pdf: <<>> until it returns, then <<the record returned>>
    printed,          \* main: the records written to stdout
    exception,        \* extract_pdf: <<>>, or <<str(e)>> of the exception being handled
    calls,            \* history: the functions extract_pdf has called, in order
    epc               \* main and extract_pdf: "idle" | "main" | "validate" | "convert" |
                      \*   "count" | "blank" | "parse" | "except" | "print" | "done"

parseVars == <<markdown, lines, i, current_section, content_lines, heading_stack,
               sections, contexts, pc>>
pathVars == <<pdf_path, temp_dir, real_path, real_temp, verdict, vpc>>
extractVars == <<argv, extracted, page_count, result, printed, exception, calls, epc>>
vars == <<parseVars, pathVars, extractVars>>

-----------------------------------------------------------------------------
(* Strings *)

Str(n, c) == [k \in 1..n |-> c]

Whitespace == {" ", "\t", "\n"}

StartsWith(s, p) == Len(p) <= Len(s) /\ SubSeq(s, 1, Len(p)) = p

EndsWith(s, p) == Len(p) <= Len(s) /\ SubSeq(s, Len(s) - Len(p) + 1, Len(s)) = p

\* The length of the longest prefix (suffix) of s made of characters of cs.
LeadingRun(s, cs) ==
    CHOOSE n \in 0..Len(s) :
        /\ n = Len(s) \/ s[n + 1] \notin cs
        /\ \A j \in 1..n : s[j] \in cs

TrailingRun(s, cs) ==
    CHOOSE n \in 0..Len(s) :
        /\ n = Len(s) \/ s[Len(s) - n] \notin cs
        /\ \A j \in (Len(s) - n + 1)..Len(s) : s[j] \in cs

StripLeft(s) == SubSeq(s, LeadingRun(s, Whitespace) + 1, Len(s))

Strip(s) ==
    LET l == StripLeft(s)
    IN  SubSeq(l, 1, Len(l) - TrailingRun(l, Whitespace))

RECURSIVE Join(_, _)
Join(ss, sep) ==
    IF ss = <<>> THEN <<>>
    ELSE IF Len(ss) = 1 THEN ss[1]
    ELSE ss[1] \o sep \o Join(Tail(ss), sep)

\* The number of characters before the first c; Len(s) when there is none.
Find(s, c) ==
    CHOOSE n \in 0..Len(s) :
        /\ n = Len(s) \/ s[n + 1] = c
        /\ \A j \in 1..n : s[j] # c

RECURSIVE Split(_, _)
Split(s, c) ==
    LET n == Find(s, c)
    IN  IF n = Len(s) THEN <<s>>
        ELSE <<SubSeq(s, 1, n)>> \o Split(SubSeq(s, n + 2, Len(s)), c)

-----------------------------------------------------------------------------
(* parse_sections *)

MaxHeadingLevel == 6
TitleLimit == 200
ContextLimit == 500
ContextKeep == 497

Ellipsis == <<".", ".", ".">>
Arrow == <<" ", ">", " ">>

\* Variant of HeadingMatch: the pattern ^(#+)\s+(.+)$, any number of '#'.
HeadingMatchAnyDepth(line) ==
    LET h == LeadingRun(line, {"#"})
        rest == SubSeq(line, h + 1, Len(line))
        w == LeadingRun(rest, Whitespace)
        after == SubSeq(rest, w + 1, Len(rest))
    IN  IF h < 1 \/ w < 1 THEN <<>>
        ELSE IF after # <<>> THEN <<[hashes |-> Str(h, "#"), text |-> after]>>
        ELSE IF w >= 2 THEN <<[hashes |-> Str(h, "#"), text |-> <<rest[w]>>]>>
        ELSE <<>>

\* heading_pattern.match(line): <<>> when the line does not match, else
\* <<[hashes |-> group(1), text |-> group(2)]>>.  \s+ is greedy and gives back
\* one character when nothing is left for (.+).
HeadingMatch(line) ==
    LET h == LeadingRun(line, {"#"})
        rest == SubSeq(line, h + 1, Len(line))
        w == LeadingRun(rest, Whitespace)
        after == SubSeq(rest, w + 1, Len(rest))
    IN  IF h < 1 \/ h > MaxHeadingLevel \/ w < 1 THEN <<>>
        ELSE IF after # <<>> THEN <<[hashes |-> Str(h, "#"), text |-> after]>>
        ELSE IF w >= 2 THEN <<[hashes |-> Str(h, "#"), text |-> <<rest[w]>>]>>
        ELSE <<>>

\* Variant of TruncateTitle: the cut title loses its "..." marker.
TruncateTitleNoMarker(title) ==
    IF Len(title) > TitleLimit THEN SubSeq(title, 1, TitleLimit) ELSE title

TruncateTitle(title) ==
    IF Len(title) > TitleLimit THEN SubSeq(title, 1, TitleLimit) \o Ellipsis ELSE title

\* Variant of TruncateContext: keeps the head of the context, not its tail.
TruncateContextKeepHead(ctx) ==
    IF Len(ctx) > ContextLimit
    THEN SubSeq(ctx, 1, ContextKeep) \o Ellipsis
    ELSE ctx

\* Variant of TruncateContext: keeps ContextLimit characters behind the "...".
TruncateContextKeepLimit(ctx) ==
    IF Len(ctx) > ContextLimit
    THEN Ellipsis \o SubSeq(ctx, Len(ctx) - ContextLimit + 1, Len(ctx))
    ELSE ctx

TruncateContext(ctx) ==
    IF Len(ctx) > ContextLimit
    THEN Ellipsis \o SubSeq(ctx, Len(ctx) - ContextKeep + 1, Len(ctx))
    ELSE ctx

\* Variant of PopStack: headings of the same level stay on the stack.
RECURSIVE PopStackDeeperOnly(_, _)
PopStackDeeperOnly(stack, level) ==
    IF stack # <<>> /\ stack[Len(stack)].level > level
    THEN PopStackDeeperOnly(SubSeq(stack, 1, Len(stack) - 1), level)
    ELSE stack

RECURSIVE PopStack(_, _)
PopStack(stack, level) ==
    IF stack # <<>> /\ stack[Len(stack)].level >= level
    THEN PopStack(SubSeq(stack, 1, Len(stack) - 1), level)
    ELSE stack

Titles(stack) == [k \in 1..Len(stack) |-> stack[k].title]

BuildContext(stack, title) ==
    LET joined == Join(Titles(stack), Arrow)
    IN  IF joined # <<>> THEN joined \o Arrow \o title ELSE title

\* Variant of CloseSection: the content is joined and not trimmed.
CloseSectionUntrimmed(section, buffer) ==
    [section EXCEPT !.content = Join(buffer, <<"\n">>)]

CloseSection(section, buffer) ==
    [section EXCEPT !.content = Strip(Join(buffer, <<"\n">>))]

\* Variant of HeadlessSection: the content is not trimmed.
HeadlessSectionUntrimmed(buffer) ==
    [level |-> 0, title |-> <<>>, heading_context |-> <<>>,
     content |-> Join(buffer, <<"\n">>), start_line |-> 0]

HeadlessSection(buffer) ==
    [level |-> 0, title |-> <<>>, heading_context |-> <<>>,
     content |-> Strip(Join(buffer, <<"\n">>)), start_line |-> 0]

\* Variant of HeadingLine: start_line counts lines from one.
HeadingLineOneBased ==
    /\ pc = "loop"
    /\ i < Len(lines)
    /\ HeadingMatch(lines[i + 1]) # <<>>
    /\ LET m == HeadingMatch(lines[i + 1])[1]
           level == Len(m.hashes)
           title == TruncateTitle(Strip(m.text))
           stack == PopStack(heading_stack, level)
           ctx == BuildContext(stack, title)
       IN  /\ sections' = IF current_section # <<>>
                          THEN Append(sections, CloseSection(current_section[1], content_lines))
                          ELSE sections
           /\ current_section' = <<[level |-> level, title |-> title,
                                    heading_context |-> TruncateContext(ctx),
                                    content |-> <<>>, start_line |-> i + 1]>>
           /\ heading_stack' = Append(stack, [level |-> level, title |-> title])
           /\ contexts' = Append(contexts, ctx)
           /\ content_lines' = <<>>
    /\ i' = i + 1
    /\ UNCHANGED <<markdown, lines, pc, pathVars, extractVars>>

HeadingLine ==
    /\ pc = "loop"
    /\ i < Len(lines)
    /\ HeadingMatch(lines[i + 1]) # <<>>
    /\ LET m == HeadingMatch(lines[i + 1])[1]
           level == Len(m.hashes)
           title == TruncateTitle(Strip(m.text))
           stack == PopStack(heading_stack, level)
           ctx == BuildContext(stack, title)
       IN  /\ sections' = IF current_section # <<>>
                          THEN Append(sections, CloseSection(current_section[1], content_lines))
                          ELSE sections
           /\ current_section' = <<[level |-> level, title |-> title,
                                    heading_context |-> TruncateContext(ctx),
                                    content |-> <<>>, start_line |-> i]>>
           /\ heading_stack' = Append(stack, [level |-> level, title |-> title])
           /\ contexts' = Append(contexts, ctx)
           /\ content_lines' = <<>>
    /\ i' = i + 1
    /\ UNCHANGED <<markdown, lines, pc, pathVars, extractVars>>

ContentLine ==
    /\ pc = "loop"
    /\ i < Len(lines)
    /\ HeadingMatch(lines[i + 1]) = <<>>
    /\ content_lines' = Append(content_lines, lines[i + 1])
    /\ i' = i + 1
    /\ UNCHANGED <<markdown, lines, current_section, heading_stack, sections, contexts,
                   pc, pathVars, extractVars>>

\* Variant of Return: the loop is left one line early.
ReturnBeforeLastLine ==
    /\ pc = "loop"
    /\ i = Len(lines) - 1
    /\ sections' = IF current_section # <<>>
                   THEN Append(sections, CloseSection(current_section[1], content_lines))
                   ELSE IF content_lines # <<>>
                   THEN Append(sections, HeadlessSection(content_lines))
                   ELSE sections
    /\ pc' = "done"
    /\ UNCHANGED <<markdown, lines, i, current_section, content_lines, heading_stack,
                   contexts, pathVars, extractVars>>

Return ==
    /\ pc = "loop"
    /\ i = Len(lines)
    /\ sections' = IF current_section # <<>>
                   THEN Append(sections, CloseSection(current_section[1], content_lines))
                   ELSE IF content_lines # <<>>
                   THEN Append(sections, HeadlessSection(content_lines))
                   ELSE sections
    /\ pc' = "done"
    /\ UNCHANGED <<markdown, lines, i, current_section, content_lines, heading_stack,
                   contexts, pathVars, extractVars>>

-----------------------------------------------------------------------------
(* Inputs of parse_sections *)

MaxLen == 6
MaxLines == 3
MaxLongLines == 4

Alphabet == {"#", " ", "a", "\n"}

CharInputs == UNION {[1..n -> Alphabet] : n \in 0..MaxLen}

ShortLines ==
    { <<>>,
      <<" ">>,
      <<"a">>,
      <<"#", " ", "a">>,
      <<"#", " ", "b", " ">>,
      <<"#", "#", "\t", "c">>,
      <<"#", "#", " ", "d", " ", "#">>,
      <<"#", "#", "#", " ", "e">>,
      <<"#", " ", " ">>,
      <<"#", "#", " ", "\t">>,
      <<"#", "f">>,
      Str(6, "#") \o <<" ", "g">>,
      Str(7, "#") \o <<" ", "h">> }

LongLines ==
    { <<"#", " ">> \o Str(200, "a"),
      <<"#", " ">> \o Str(250, "b"),
      <<"#", "#", " ">> \o Str(200, "c"),
      <<"#", "#", " ">> \o Str(201, "d") \o <<" ">>,
      <<"#", "#", "#", " ">> \o Str(94, "e"),
      <<"#", "#", "#", " ">> \o Str(95, "f"),
      <<"#", "#", "#", " ", "g">> }

Documents(shapes, n) ==
    UNION {{Join(d, <<"\n">>) : d \in [1..k -> shapes]} : k \in 1..n}

\* headings of every depth, one below the other, then one or two further headings
Staircase == [k \in 1..MaxHeadingLevel |-> Str(k, "#") \o <<" ", "s">>]

DeepInputs ==
    {Join(Staircase \o d, <<"\n">>) : d \in [1..1 -> ShortLines] \cup [1..2 -> ShortLines]}

Inputs == CharInputs \cup Documents(ShortLines, MaxLines)
                     \cup Documents(LongLines, MaxLongLines)
                     \cup DeepInputs

ExtractIdle ==
    /\ argv = <<>>
    /\ extracted = <<>>
    /\ page_count = <<>>
    /\ result = <<>>
    /\ printed = <<>>
    /\ exception = <<>>
    /\ calls = <<>>
    /\ epc = "idle"

PathIdle ==
    /\ pdf_path = <<>>
    /\ temp_dir = <<>>
    /\ real_path = <<>>
    /\ real_temp = <<>>
    /\ verdict = <<>>
    /\ vpc = "idle"

ParseInit ==
    /\ markdown \in Inputs
    /\ lines = Split(markdown, "\n")
    /\ i = 0
    /\ current_section = <<>>
    /\ content_lines = <<>>
    /\ heading_stack = <<>>
    /\ sections = <<>>
    /\ contexts = <<>>
    /\ pc = "loop"

Init == ParseInit /\ PathIdle /\ ExtractIdle

Next == HeadingLine \/ ContentLine \/ Return

Spec == Init /\ [][Next]_vars

-----------------------------------------------------------------------------
(* The file system validate_path looks at.  A location is the sequence of its
   names from the root directory; a path is the string the program handles. *)

SEP == "/"

Tmp == <<"t", "m", "p">>
TmpEvil == <<"t", "m", "p", "_", "e">>
Etc == <<"e", "t", "c">>

\* regular files; /tmp/d, /tmp_e and /etc are directories
Files == {<<Tmp, <<"f">>>>, <<Tmp, <<"d">>, <<"f">>>>, <<TmpEvil, <<"f">>>>, <<Etc, <<"p">>>>}

\* os.readlink of each symbolic link
Links ==
    (<<Tmp, <<"l">>>> :> <<SEP>> \o Etc \o <<SEP, "p">>) @@
    (<<Tmp, <<"k">>>> :> <<"d", SEP, "f">>) @@
    (<<Tmp, <<"o">>>> :> <<".", ".", SEP>> \o TmpEvil) @@
    (<<<<"t">>>> :> <<SEP>> \o Tmp)

\* location -> path string
Render(loc) == IF loc = <<>> THEN <<SEP>> ELSE <<SEP>> \o Join(loc, <<SEP>>)

\* os.path.isabs
IsAbs(path) == StartsWith(path, <<SEP>>)

\* posixpath._joinrealpath (strict=False) on a file system without link cycles:
\* the location reached from `loc` by following the names `rest`.
RECURSIVE JoinRealPath(_, _)
JoinRealPath(loc, rest) ==
    IF rest = <<>> THEN loc
    ELSE LET name == Head(rest)
             newloc == Append(loc, name)
         IN  IF name = <<>> \/ name = <<".">> THEN JoinRealPath(loc, Tail(rest))
             ELSE IF name = <<".", ".">>
             THEN JoinRealPath(SubSeq(loc, 1, Len(loc) - 1), Tail(rest))
             ELSE IF newloc \in DOMAIN Links
             THEN JoinRealPath(
                      JoinRealPath(IF IsAbs(Links[newloc]) THEN <<>> ELSE loc,
                                   Split(Links[newloc], SEP)),
                      Tail(rest))
             ELSE JoinRealPath(newloc, Tail(rest))

\* os.path.realpath of an absolute path
RealPath(path) == Render(JoinRealPath(<<>>, Split(path, SEP)))

\* os.path.isfile: a regular file, symbolic links followed
IsFile(path) == JoinRealPath(<<>>, Split(path, SEP)) \in Files

-----------------------------------------------------------------------------
(* validate_path *)

MsgAbsolute ==
    <<"P", "a", "t", "h", " ", "m", "u", "s", "t", " ", "b", "e", " ", "a", "b", "s",
      "o", "l", "u", "t", "e">>

MsgNotFile ==
    <<"P", "a", "t", "h", " ", "i", "s", " ", "n", "o", "t", " ", "a", " ", "f", "i",
      "l", "e", " ", "o", "r", " ", "d", "o", "e", "s", " ", "n", "o", "t", " ", "e",
      "x", "i", "s", "t">>

MsgTempPrefix ==
    <<"P", "a", "t", "h", " ", "m", "u", "s", "t", " ", "b", "e", " ", "i", "n", " ",
      "t", "e", "m", "p", " ", "d", "i", "r", "e", "c", "t", "o", "r", "y", " ", "(">>

MsgMustBeIn(dir) == MsgTempPrefix \o dir \o <<")">>

Returns(valid, reason) == <<[valid |-> valid, reason |-> reason]>>

\* Variant of InTempDir: the prefix test without the separator.
InTempDirNoSep(real, root) == StartsWith(real, root)

InTempDir(real, root) == StartsWith(real, root \o <<SEP>>)

CheckAbsolute ==
    /\ vpc = "isabs"
    /\ IF ~IsAbs(pdf_path)
       THEN verdict' = Returns(FALSE, MsgAbsolute) /\ vpc' = "done"
       ELSE verdict' = verdict /\ vpc' = "resolve"
    /\ UNCHANGED <<pdf_path, temp_dir, real_path, real_temp, parseVars, extractVars>>

Resolve ==
    /\ vpc = "resolve"
    /\ real_path' = <<RealPath(pdf_path)>>
    /\ real_temp' = <<RealPath(temp_dir)>>
    /\ vpc' = "inroot"
    /\ UNCHANGED <<pdf_path, temp_dir, verdict, parseVars, extractVars>>

\* Variant of CheckInTempDir: the file test comes before the directory test.
CheckFileBeforeTempDir ==
    /\ vpc = "inroot"
    /\ verdict' = IF ~IsFile(real_path[1]) THEN Returns(FALSE, MsgNotFile)
                  ELSE IF ~InTempDir(real_path[1], real_temp[1])
                  THEN Returns(FALSE, MsgMustBeIn(temp_dir))
                  ELSE Returns(TRUE, <<>>)
    /\ vpc' = "done"
    /\ UNCHANGED <<pdf_path, temp_dir, real_path, real_temp, parseVars, extractVars>>

CheckInTempDir ==
    /\ vpc = "inroot"
    /\ IF ~InTempDir(real_path[1], real_temp[1])
       THEN verdict' = Returns(FALSE, MsgMustBeIn(temp_dir)) /\ vpc' = "done"
       ELSE verdict' = verdict /\ vpc' = "isfile"
    /\ UNCHANGED <<pdf_path, temp_dir, real_path, real_temp, parseVars, extractVars>>

CheckIsFile ==
    /\ vpc = "isfile"
    /\ IF ~IsFile(real_path[1])
       THEN verdict' = Returns(FALSE, MsgNotFile)
       ELSE verdict' = Returns(TRUE, <<>>)
    /\ vpc' = "done"
    /\ UNCHANGED <<pdf_path, temp_dir, real_path, real_temp, parseVars, extractVars>>

-----------------------------------------------------------------------------
(* Inputs of validate_path *)

MaxNames == 3

Names == {Tmp, TmpEvil, Etc, <<"t">>, <<"f">>, <<"d">>, <<"l">>, <<"k">>, <<"o">>,
          <<"x">>, <<".", ".">>, <<>>}

NameLists == UNION {[1..n -> Names] : n \in 0..MaxNames}

\* absolute and relative spellings
Candidates == {Render(ns) : ns \in NameLists} \cup {Join(ns, <<SEP>>) : ns \in NameLists}

\* what tempfile.gettempdir() may return here: the directory or a link to it
TempDirs == {Render(<<Tmp>>), Render(<<<<"t">>>>)}

ParseIdle ==
    /\ markdown = <<>>
    /\ lines = <<>>
    /\ i = 0
    /\ current_section = <<>>
    /\ content_lines = <<>>
    /\ heading_stack = <<>>
    /\ sections = <<>>
    /\ contexts = <<>>
    /\ pc = "idle"

PathInit ==
    /\ pdf_path \in Candidates
    /\ temp_dir \in TempDirs
    /\ real_path = <<>>
    /\ real_temp = <<>>
    /\ verdict = <<>>
    /\ vpc = "isabs"

PathNext == CheckAbsolute \/ Resolve \/ CheckInTempDir \/ CheckIsFile

PathStart == PathInit /\ ParseIdle /\ ExtractIdle

PathSpec == PathStart /\ [][PathNext]_vars

-----------------------------------------------------------------------------
(* extract_pdf and main.  The converter (pymupdf4llm.to_markdown) and the page
   count (pymupdf.open) are outside the program: each returns some value or
   raises some exception.  None is <<>>, a value v is <<v>>. *)

MsgInvalidPath ==
    <<"I", "n", "v", "a", "l", "i", "d", " ", "p", "a", "t", "h", ":", " ">>

MsgUsage ==
    <<"U", "s", "a", "g", "e", ":", " ", "p", "y", "t", "h", "o", "n", "3", " ", "e",
      "x", "t", "r", "a", "c", "t", "_", "p", "d", "f", ".", "p", "y", " ", "<", "p",
      "d", "f", "_", "p", "a", "t", "h", ">">>

Failure(err) ==
    [success |-> FALSE, markdown |-> <<>>, sections |-> <<>>, page_count |-> 0,
     error |-> <<err>>]

\* Variant of Success: error is the empty string, not None.
SuccessEmptyError(md, secs, pages) ==
    [success |-> TRUE, markdown |-> md, sections |-> secs, page_count |-> pages,
     error |-> <<<<>>>>]

Success(md, secs, pages) ==
    [success |-> TRUE, markdown |-> md, sections |-> secs, page_count |-> pages,
     error |-> <<>>]

MaxArgNames == 2
MaxTextLen == 3
MaxPages == 2

ArgPaths ==
    LET lists == UNION {[1..n -> Names] : n \in 0..MaxArgNames}
    IN  {Render(ns) : ns \in lists} \cup {Join(ns, <<SEP>>) : ns \in lists}

\* what the converter may return
Texts == UNION {[1..n -> Alphabet] : n \in 0..MaxTextLen}
            \cup {<<"\t">>, <<"#", " ", " ">>, <<"a", "\n", "#", " ", "a", "\n", "a">>}

\* str(e) of what the converter or the page count may raise
Errors == {<<>>, <<"e">>}

Main ==
    /\ epc = "main"
    /\ IF Len(argv) # 1
       THEN /\ printed' = Append(printed, Failure(MsgUsage))
            /\ epc' = "done"
            /\ UNCHANGED <<pdf_path, vpc, calls>>
       ELSE /\ pdf_path' = argv[1]
            /\ vpc' = "isabs"
            /\ calls' = Append(calls, "validate_path")
            /\ epc' = "validate"
            /\ UNCHANGED printed
    /\ UNCHANGED <<argv, extracted, page_count, result, exception, temp_dir, real_path,
                   real_temp, verdict, parseVars>>

\* Variant of Validated: the verdict is not looked at.
ValidatedIgnoresVerdict ==
    /\ epc = "validate"
    /\ vpc = "done"
    /\ epc' = "convert"
    /\ UNCHANGED <<argv, extracted, page_count, result, printed, exception, calls,
                   pathVars, parseVars>>

Validated ==
    /\ epc = "validate"
    /\ vpc = "done"
    /\ IF ~verdict[1].valid
       THEN result' = <<Failure(MsgInvalidPath \o verdict[1].reason)>> /\ epc' = "print"
       ELSE result' = result /\ epc' = "convert"
    /\ UNCHANGED <<argv, extracted, page_count, printed, exception, calls, pathVars,
                   parseVars>>

Convert ==
    /\ epc = "convert"
    /\ calls' = Append(calls, "to_markdown")
    /\ \/ \E text \in Texts :
             extracted' = <<text>> /\ epc' = "count" /\ exception' = exception
       \/ \E e \in Errors :
             exception' = <<e>> /\ epc' = "except" /\ extracted' = extracted
    /\ UNCHANGED <<argv, page_count, result, printed, pathVars, parseVars>>

CountPages ==
    /\ epc = "count"
    /\ calls' = Append(calls, "open")
    /\ \/ \E n \in 1..MaxPages :
             page_count' = <<n>> /\ epc' = "blank" /\ exception' = exception
       \/ \E e \in Errors :
             exception' = <<e>> /\ epc' = "except" /\ page_count' = page_count
    /\ UNCHANGED <<argv, extracted, result, printed, pathVars, parseVars>>

\* Variant of CheckBlank: only the empty text is taken as image-only.
CheckBlankEmptyOnly ==
    /\ epc = "blank"
    /\ IF extracted[1] = <<>>
       THEN /\ result' = <<Success(<<>>, <<>>, page_count[1])>>
            /\ epc' = "print"
            /\ UNCHANGED <<calls, parseVars>>
       ELSE /\ calls' = Append(calls, "parse_sections")
            /\ markdown' = extracted[1]
            /\ lines' = Split(extracted[1], "\n")
            /\ pc' = "loop"
            /\ epc' = "parse"
            /\ UNCHANGED <<result, i, current_section, content_lines, heading_stack,
                           sections, contexts>>
    /\ UNCHANGED <<argv, extracted, page_count, printed, exception, pathVars>>

\* lines 202-214: the image-only return, or the call of parse_sections
CheckBlank ==
    /\ epc = "blank"
    /\ IF extracted[1] = <<>> \/ Strip(extracted[1]) = <<>>
       THEN /\ result' = <<Success(<<>>, <<>>, page_count[1])>>
            /\ epc' = "print"
            /\ UNCHANGED <<calls, parseVars>>
       ELSE /\ calls' = Append(calls, "parse_sections")
            /\ markdown' = extracted[1]
            /\ lines' = Split(extracted[1], "\n")
            /\ pc' = "loop"
            /\ epc' = "parse"
            /\ UNCHANGED <<result, i, current_section, content_lines, heading_stack,
                           sections, contexts>>
    /\ UNCHANGED <<argv, extracted, page_count, printed, exception, pathVars>>

Package ==
    /\ epc = "parse"
    /\ pc = "done"
    /\ result' = <<Success(extracted[1], sections, page_count[1])>>
    /\ epc' = "print"
    /\ UNCHANGED <<argv, extracted, page_count, printed, exception, calls, pathVars,
                   parseVars>>

Except ==
    /\ epc = "except"
    /\ result' = <<Failure(exception[1])>>
    /\ epc' = "print"
    /\ UNCHANGED <<argv, extracted, page_count, printed, exception, calls, pathVars,
                   parseVars>>

PrintResult ==
    /\ epc = "print"
    /\ printed' = Append(printed, result[1])
    /\ epc' = "done"
    /\ UNCHANGED <<argv, extracted, page_count, result, exception, calls, pathVars,
                   parseVars>>

ExtractInit ==
    /\ argv \in {<<>>} \cup {<<p>> : p \in ArgPaths} \cup {<<p, <<"x">>>> : p \in ArgPaths}
    /\ extracted = <<>>
    /\ page_count = <<>>
    /\ result = <<>>
    /\ printed = <<>>
    /\ exception = <<>>
    /\ calls = <<>>
    /\ epc = "main"
    /\ pdf_path = <<>>
    /\ temp_dir \in TempDirs
    /\ real_path = <<>>
    /\ real_temp = <<>>
    /\ verdict = <<>>
    /\ vpc = "idle"
    /\ markdown = <<>>
    /\ lines = <<>>
    /\ i = 0
    /\ current_section = <<>>
    /\ content_lines = <<>>
    /\ heading_stack = <<>>
    /\ sections = <<>>
    /\ contexts = <<>>
    /\ pc = "idle"

ExtractNext ==
    \/ Main
    \/ CheckAbsolute \/ Resolve \/ CheckInTempDir \/ CheckIsFile
    \/ Validated
    \/ Convert
    \/ CountPages
    \/ CheckBlank
    \/ HeadingLine \/ ContentLine \/ Return
    \/ Package
    \/ Except
    \/ PrintResult

ExtractSpec == ExtractInit /\ [][ExtractNext]_vars

-----------------------------------------------------------------------------
(* Properties of validate_path *)

Returned == vpc = "done"

\* path string -> location, for a path without "." and ".." names
Location(path) == SelectSeq(Split(path, SEP), LAMBDA n : n # <<>>)

\* loc lies strictly below the directory root
Under(loc, root) == Len(loc) > Len(root) /\ SubSeq(loc, 1, Len(root)) = root

StemMustBeIn ==
    <<"P", "a", "t", "h", " ", "m", "u", "s", "t", " ", "b", "e", " ", "i", "n">>

\* C1: a valid verdict is returned only for a candidate whose resolved path is
\* the resolved root, the separator and more; a candidate resolved to a
\* sibling sharing the root as a string prefix, to the root itself or to
\* anything else outside it is rejected with the "must be in" reason.
Confinement ==
    Returned =>
        /\ verdict[1].valid =>
              /\ real_path # <<>>
              /\ StartsWith(real_path[1], real_temp[1] \o <<SEP>>)
              /\ Under(Location(real_path[1]), Location(real_temp[1]))
        /\ real_path # <<>> /\ ~Under(Location(real_path[1]), Location(real_temp[1])) =>
              /\ ~verdict[1].valid
              /\ StartsWith(verdict[1].reason, StemMustBeIn)

\* a link inside the root leads to a sibling directory whose name extends the root's
ConfinementWitness ==
    /\ Returned
    /\ pdf_path = Render(<<Tmp, <<"o">>, <<"f">>>>)
    /\ real_path = <<Render(<<TmpEvil, <<"f">>>>)>>
    /\ StartsWith(real_path[1], real_temp[1])
    /\ IsFile(real_path[1])
    /\ ~verdict[1].valid

ReasonOrder(mustBeIn) ==
    Returned =>
        LET v == verdict[1]
            abs == IsAbs(pdf_path)
            inside == abs /\ Under(Location(RealPath(pdf_path)), Location(RealPath(temp_dir)))
        IN  /\ ~abs => ~v.valid /\ v.reason = MsgAbsolute
            /\ abs /\ ~inside => ~v.valid /\ v.reason = mustBeIn
            /\ abs /\ inside /\ ~IsFile(pdf_path) => ~v.valid /\ v.reason = MsgNotFile
            /\ v.reason = MsgNotFile => abs /\ inside /\ ~IsFile(pdf_path)
            /\ v.reason = <<>> <=> v.valid

\* C2: the checks run in the order absolute, inside the trusted root, existing
\* regular file, and the reason is that of the first one failing: "Path must
\* be absolute", "Path must be in {trusted_root}", "Path is not a file or does
\* not exist"; the reason is empty exactly when the verdict is valid.
ReasonOrderAsClaimed ==
    ReasonOrder(StemMustBeIn \o <<" ">> \o temp_dir)

\* C2, amended: as above, with the reason of the second check being
\* "Path must be in temp directory ({temp_dir})".
ReasonOrderAmended ==
    ReasonOrder(MsgTempPrefix \o temp_dir \o <<")">>)

\* an absolute path outside the root that does not exist
ReasonOrderWitness ==
    /\ Returned
    /\ IsAbs(pdf_path)
    /\ real_path = <<Render(<<Etc, <<"x">>>>)>>
    /\ ~IsFile(pdf_path)
    /\ verdict[1].reason = MsgTempPrefix \o temp_dir \o <<")">>
    /\ temp_dir # real_temp[1]

-----------------------------------------------------------------------------
(* Vocabulary of the properties of parse_sections *)

Done == pc = "done"

NL == <<"\n">>

IsHeading(line) == HeadingMatch(line) # <<>>

HeadingLines == {k \in 1..Len(lines) : IsHeading(lines[k])}

IsBlank(s) == Strip(s) = <<>>

\* The text a heading line carries after its '#' run, trimmed and not yet truncated.
RawTitle(line) == Strip(HeadingMatch(line)[1].text)

\* The nearest earlier section of strictly smaller level, 0 when there is none.
Parent(k) ==
    LET shallower == {j \in 1..(k - 1) : sections[j].level < sections[k].level}
    IN  IF shallower = {} THEN 0 ELSE CHOOSE j \in shallower : \A m \in shallower : m <= j

RECURSIVE AncestorTitles(_)
AncestorTitles(k) ==
    IF Parent(k) = 0 THEN <<>>
    ELSE Append(AncestorTitles(Parent(k)), sections[Parent(k)].title)

ExpectedContext(k) == Join(Append(AncestorTitles(k), sections[k].title), Arrow)

\* The lines of a trimmed text; a text trimmed to nothing has no lines.
LinesOf(s) == IF s = <<>> THEN <<>> ELSE Split(s, "\n")

RECURSIVE Reconstruct(_)
Reconstruct(k) ==
    IF k > Len(sections) THEN <<>>
    ELSE (IF sections[k].level > 0 THEN <<lines[sections[k].start_line + 1]>> ELSE <<>>)
         \o LinesOf(sections[k].content) \o Reconstruct(k + 1)

NextHeading(k) ==
    LET later == {h \in HeadingLines : h >= k}
    IN  IF later = {} THEN Len(lines) + 1 ELSE CHOOSE h \in later : \A m \in later : h <= m

\* The input from line k on, each run of non-heading lines trimmed as one text.
RECURSIVE Trimmed(_)
Trimmed(k) ==
    LET h == NextHeading(k)
    IN  LinesOf(Strip(Join(SubSeq(lines, k, h - 1), NL)))
        \o (IF h > Len(lines) THEN <<>> ELSE <<lines[h]>> \o Trimmed(h + 1))

-----------------------------------------------------------------------------
(* Properties of parse_sections *)

\* C3: the heading_context of every section, before truncation, is the titles of
\* its chain of nearest strictly shallower predecessors, outermost first, and
\* its own title, joined with " > ".
ContextIsAncestorChain ==
    Done => \A k \in 1..Len(sections) :
                sections[k].level > 0 => contexts[k] = ExpectedContext(k)

\* C4: an empty or whitespace-only input yields no section.
BlankInputYieldsNothing ==
    Done /\ IsBlank(markdown) => sections = <<>>

\* C5: the sections, each with its heading line put back before its content,
\* reconstruct the input line for line up to the trimming of each content.
RoundTrip ==
    Done => Reconstruct(1) = Trimmed(1)

\* C6: as many sections as heading lines, except exactly one for an input
\* without heading line and with non-empty content.
SectionCount ==
    Done => Len(sections) = IF HeadingLines = {} /\ ~IsBlank(markdown)
                            THEN 1 ELSE Cardinality(HeadingLines)

\* C7: an input without heading line and with non-empty content yields exactly
\* one section: level 0, empty title and context, start_line 0, and the trimmed
\* join of all lines as content.
HeadlessDocument ==
    Done /\ HeadingLines = {} /\ ~IsBlank(markdown) =>
        sections = <<[level |-> 0, title |-> <<>>, heading_context |-> <<>>,
                      content |-> Strip(Join(lines, NL)), start_line |-> 0]>>

HeadlessDocumentWitness ==
    /\ Done /\ HeadingLines = {} /\ ~IsBlank(markdown)
    /\ Len(lines) >= 2 /\ IsBlank(lines[1]) /\ Len(sections) = 1

\* C8: a level-0 section is alone in the output and occurs only for an input
\* without heading line; with a heading line every level is in 1..6.
LevelZeroAlone ==
    Done => /\ (\E k \in 1..Len(sections) : sections[k].level = 0)
                => Len(sections) = 1 /\ HeadingLines = {}
            /\ HeadingLines # {}
                => \A k \in 1..Len(sections) : sections[k].level \in 1..6

LevelZeroAloneWitness ==
    /\ Done /\ Len(sections) >= 2
    /\ ~IsHeading(lines[1]) /\ ~IsBlank(lines[1])
    /\ \E k \in 1..Len(sections) : sections[k].level = 6

\* C9: a heading_context is at most 500 characters long; a joined context
\* longer than that is emitted as "..." and its last 497 characters, 500 in
\* all, and any other is emitted unchanged.
ContextTruncation ==
    Done => \A k \in 1..Len(sections) :
        LET joined == contexts[k]
            emitted == sections[k].heading_context
        IN  sections[k].level > 0 =>
              /\ Len(emitted) <= 500
              /\ Len(joined) > 500 =>
                    /\ Len(emitted) = 500
                    /\ SubSeq(emitted, 1, 3) = Ellipsis
                    /\ SubSeq(emitted, 4, 500) = SubSeq(joined, Len(joined) - 496, Len(joined))
              /\ Len(joined) <= 500 => emitted = joined

ContextTruncationWitness ==
    /\ Done
    /\ \E k \in 1..Len(contexts) :
          Len(contexts[k]) = 501 /\ Len(sections[k].heading_context) = 500
    /\ \E k \in 1..Len(contexts) :
          Len(contexts[k]) = 500 /\ sections[k].heading_context = contexts[k]

\* C10: a title is at most 203 characters long; a trimmed heading text longer
\* than 200 characters gives its first 200 characters and "...", any other
\* gives itself; and it is the truncated title that lies on the heading stack
\* and enters the contexts of the sections below it.
TitleTruncation ==
    /\ current_section # <<>> /\ ~Done =>
          /\ heading_stack # <<>>
          /\ heading_stack[Len(heading_stack)] =
                [level |-> current_section[1].level, title |-> current_section[1].title]
    /\ \A k \in 1..Len(heading_stack) : Len(heading_stack[k].title) <= 203
    /\ \A k \in 1..Len(sections) :
        LET raw == RawTitle(lines[sections[k].start_line + 1])
            title == sections[k].title
        IN  sections[k].level > 0 =>
              /\ Len(title) <= 203
              /\ Len(raw) > 200 => title = SubSeq(raw, 1, 200) \o Ellipsis
              /\ Len(raw) <= 200 => title = raw
              /\ Done /\ Parent(k) # 0 /\ sections[Parent(k)].title # <<>> =>
                    EndsWith(contexts[k], sections[Parent(k)].title \o Arrow \o title)

TitleTruncationWitness ==
    /\ Done
    /\ \E k \in 1..Len(sections) :
          /\ Parent(k) # 0
          /\ Len(sections[Parent(k)].title) = 203
          /\ Len(RawTitle(lines[sections[Parent(k)].start_line + 1])) = 250
          /\ Len(sections[k].title) = 200

\* C11: the content of a section is the trimmed "\n"-join of the lines strictly
\* between its heading line and the next heading line or the end of the input,
\* all of them, in order, and none of another section; the content buffer holds
\* exactly the lines read since the open section's heading, so it is empty
\* when a section opens.
SectionContent ==
    /\ pc = "loop" /\ current_section # <<>> =>
          content_lines = SubSeq(lines, current_section[1].start_line + 2, i)
    /\ \A k \in 1..Len(sections) :
          LET first == sections[k].start_line + 2
          IN  sections[k].level > 0 =>
                sections[k].content =
                    Strip(Join(SubSeq(lines, first, NextHeading(first) - 1), NL))

SectionContentWitness ==
    /\ Done
    /\ Len(sections) >= 2
    /\ sections[1].content # <<>>
    /\ sections[2].start_line > sections[1].start_line + 1

\* The k-th heading line of the input, counted from one.
NthHeading(k) ==
    CHOOSE h \in HeadingLines : Cardinality({g \in HeadingLines : g < h}) = k - 1

DocumentOrderState ==
    /\ \A k \in 1..Len(sections) :
          sections[k].level > 0 =>
              /\ k <= Cardinality(HeadingLines)
              /\ sections[k].start_line = NthHeading(k) - 1
              /\ k > 1 => sections[k - 1].start_line < sections[k].start_line
    /\ pc = "loop" /\ current_section # <<>> =>
          /\ Len(sections) = Cardinality({h \in HeadingLines : h <= i}) - 1
          /\ current_section[1].start_line = NthHeading(Len(sections) + 1) - 1

DocumentOrderStep ==
    sections' # sections =>
        /\ sections' = Append(sections, sections'[Len(sections')])
        /\ current_section # <<>> =>
              sections'[Len(sections')].start_line = current_section[1].start_line

\* C12: sections are produced in document order: the start_line of the k-th
\* section is the zero-based index of the k-th heading line, start_line grows
\* strictly along the output, and the output only grows, by the open section
\* being closed and appended before the one opened after it.
DocumentOrder ==
    []DocumentOrderState /\ [][DocumentOrderStep]_vars

DocumentOrderWitness ==
    /\ Done
    /\ Len(sections) = 2
    /\ sections[1].start_line = 0
    /\ sections[2].start_line = 2

IsSection(s) ==
    /\ DOMAIN s = {"level", "title", "heading_context", "content", "start_line"}
    /\ s.level \in 0..6
    /\ s.start_line \in 0..(Len(lines) - 1)
    /\ Len(s.title) <= 203
    /\ Len(s.heading_context) <= 500
    /\ Len(s.content) <= Len(markdown)

\* The guards of HeadingLine, ContentLine and Return; what follows a guard in
\* these steps is an assignment, so a step whose guard holds can be taken.
CanStep ==
    \/ i < Len(lines) /\ HeadingMatch(lines[i + 1]) # <<>>
    \/ i < Len(lines) /\ HeadingMatch(lines[i + 1]) = <<>>
    \/ i = Len(lines)

NoFailureState ==
    /\ lines # <<>>
    /\ i \in 0..Len(lines)
    /\ Done => i = Len(lines)
    /\ Done \/ CanStep
    /\ \A k \in 1..Len(sections) : IsSection(sections[k])

NoFailureStep ==
    \/ pc = "loop" /\ pc' = "loop" /\ i' = i + 1
    \/ pc = "loop" /\ pc' = "done" /\ i = Len(lines) /\ i' = i

\* C14: parse_sections has no failure outcome: from every input the loop can
\* always take its next step until it has returned, every step consumes exactly
\* the next line or, all lines consumed, returns, and what is returned is a
\* sequence of well-formed sections.
NoFailure ==
    []NoFailureState /\ [][NoFailureStep]_vars

NoFailureWitness ==
    /\ Done
    /\ Len(lines) = 4
    /\ \E k \in 1..Len(contexts) : Len(contexts[k]) > 500
    /\ \E k \in 1..Len(sections) : Len(sections[k].title) = 203

HeadingStackState ==
    /\ Len(heading_stack) <= 6
    /\ \A k \in 1..(Len(heading_stack) - 1) :
          heading_stack[k].level < heading_stack[k + 1].level
    /\ current_section # <<>> =>
          /\ heading_stack # <<>>
          /\ heading_stack[Len(heading_stack)] =
                [level |-> current_section[1].level, title |-> current_section[1].title]

HeadingStackStep ==
    IF pc = "loop" /\ i < Len(lines) /\ IsHeading(lines[i + 1])
    THEN LET top == heading_stack'[Len(heading_stack')]
         IN  /\ heading_stack' # <<>>
             /\ top.level = LeadingRun(lines[i + 1], {"#"})
             /\ SubSeq(heading_stack', 1, Len(heading_stack') - 1) =
                    SelectSeq(heading_stack, LAMBDA e : e.level < top.level)
    ELSE heading_stack' = heading_stack

\* C15: after every line the heading stack holds at most 6 entries of strictly
\* increasing level, the top one being the open section's level and title; a
\* heading removes every entry of its own or a deeper level and is then pushed,
\* and no other line changes the stack.
HeadingStack ==
    []HeadingStackState /\ [][HeadingStackStep]_vars

HeadingStackWitness ==
    /\ Len(heading_stack) = 3
    /\ Len(sections) = 6
    /\ i = 7
    /\ heading_stack[3].level = 3

\* One to six '#' followed by whitespace only.
HashesThenBlank(line) ==
    LET h == LeadingRun(line, {"#"})
    IN  /\ h \in 1..6
        /\ h < Len(line)
        /\ IsBlank(SubSeq(line, h + 1, Len(line)))

\* C16: a line opens a section only when text other than whitespace follows its
\* one to six '#' and whitespace: every section of level 1..6 has a non-empty
\* title, and a line of '#' followed by whitespace only goes to the content
\* buffer and opens no section.
HeadingNeedsText ==
    /\ \A k \in 1..Len(sections) :
          sections[k].level \in 1..6 => sections[k].title # <<>>
    /\ \A k \in 1..i :
          HashesThenBlank(lines[k]) =>
              \A n \in 1..Len(sections) :
                  sections[n].level > 0 => sections[n].start_line # k - 1

\* C19: the heading_context of every section of level 1..6 ends with the
\* section's title, truncated or not, and is the title itself when no shallower
\* heading is open.
ContextEndsWithTitle ==
    \A k \in 1..Len(sections) :
        sections[k].level \in 1..6 =>
            /\ EndsWith(sections[k].heading_context, sections[k].title)
            /\ Parent(k) = 0 => sections[k].heading_context = sections[k].title

ContextEndsWithTitleWitness ==
    /\ Done
    /\ \E k \in 1..Len(contexts) :
          /\ Len(contexts[k]) > 500
          /\ SubSeq(sections[k].heading_context, 1, 3) = Ellipsis
          /\ Len(sections[k].title) >= 94
          /\ Parent(k) # 0
          /\ Len(sections[Parent(k)].title) = 203


-----------------------------------------------------------------------------
(* Properties of extract_pdf and main *)

Called(f) == \E k \in 1..Len(calls) : calls[k] = f

StepSequence == <<"validate_path", "to_markdown", "open", "parse_sections">>

Declined ==
    /\ verdict # <<>>
    /\ ~verdict[1].valid

\* C13: extract_pdf calls validate_path, the converter, the page-count open and
\* parse_sections in that order and packages last: the converter and the open
\* are called only after validate_path has returned valid; when validation
\* fails neither the converter nor parse_sections is called, and the result is
\* a declined request: success false, markdown and sections empty, page_count 0,
\* error beginning "Invalid path: ".
StepOrder ==
    /\ Len(calls) <= Len(StepSequence)
    /\ calls = SubSeq(StepSequence, 1, Len(calls))
    /\ Called("to_markdown") \/ Called("open") =>
          /\ vpc = "done"
          /\ verdict # <<>>
          /\ verdict[1].valid
    /\ Called("open") => extracted # <<>>
    /\ Called("parse_sections") => page_count # <<>> /\ markdown = extracted[1]
    /\ result # <<>> /\ result[1].success /\ Called("parse_sections") =>
          /\ pc = "done"
          /\ result[1].sections = sections
          /\ result[1].markdown = extracted[1]
          /\ result[1].page_count = page_count[1]
    /\ Declined =>
          /\ calls = <<"validate_path">>
          /\ pc = "idle"
          /\ extracted = <<>>
          /\ page_count = <<>>
          /\ epc \in {"validate", "print", "done"}
          /\ epc # "validate" =>
                /\ result # <<>>
                /\ ~result[1].success
                /\ result[1].markdown = <<>>
                /\ result[1].sections = <<>>
                /\ result[1].page_count = 0
                /\ result[1].error # <<>>
                /\ StartsWith(result[1].error[1], MsgInvalidPath)
                /\ result[1].error[1] = MsgInvalidPath \o verdict[1].reason

StepOrderWitness ==
    /\ epc = "done"
    /\ Declined
    /\ verdict[1].reason = MsgMustBeIn(temp_dir)
    /\ printed = <<Failure(MsgInvalidPath \o MsgMustBeIn(temp_dir))>>

BlankExtracted ==
    /\ extracted # <<>>
    /\ Strip(extracted[1]) = <<>>

NoEmptyHeadless(record) ==
    \A k \in 1..Len(record.sections) :
        record.sections[k].level = 0 => record.sections[k].content # <<>>

\* What extract_pdf does with blank text; countRead says whether the claim is
\* restricted to runs in which the page count was read.
BlankText(countRead) ==
    /\ BlankExtracted => ~Called("parse_sections") /\ pc = "idle"
    /\ BlankExtracted /\ result # <<>> /\ (countRead => page_count # <<>>) =>
          /\ page_count # <<>>
          /\ result[1] = Success(<<>>, <<>>, page_count[1])
    /\ result # <<>> => NoEmptyHeadless(result[1])
    /\ \A k \in 1..Len(printed) : NoEmptyHeadless(printed[k])

\* C17 as stated: whenever the converter's markdown for a valid path is blank,
\* extract_pdf returns success true with markdown '', sections [] and the real
\* page count, parse_sections is not called on that text, and no result holds a
\* level-0 section with empty content.
BlankTextAsClaimed == BlankText(FALSE)

\* C17 amended: the same, for the runs in which the page count is read without
\* an exception; when reading it raises, the result is the failure record.
BlankTextAmended ==
    /\ BlankText(TRUE)
    /\ BlankExtracted /\ result # <<>> /\ page_count = <<>> =>
          /\ exception # <<>>
          /\ result[1] = Failure(exception[1])

BlankTextWitness ==
    /\ epc = "done"
    /\ extracted = <<<<" ", "\n", " ">>>>
    /\ page_count = <<MaxPages>>
    /\ calls = <<"validate_path", "to_markdown", "open">>
    /\ printed = <<Success(<<>>, <<>>, MaxPages)>>

Envelope(record) ==
    /\ record.success <=> record.error = <<>>
    /\ ~record.success =>
          /\ record.markdown = <<>>
          /\ record.sections = <<>>
          /\ record.page_count = 0

\* C18: in every record extract_pdf returns or main prints, success is true
\* exactly when error is null, and a record with success false has markdown '',
\* sections [] and page_count 0; a failed validation and an exception of the
\* converter or of the page count each end in such a record, section building
\* does not fail, and every run of main ends with one record printed.
ResultEnvelope ==
    /\ result # <<>> => Envelope(result[1])
    /\ \A k \in 1..Len(printed) : Envelope(printed[k])
    /\ Declined /\ epc \in {"print", "done"} =>
          result # <<>> /\ ~result[1].success
    /\ exception # <<>> =>
          /\ epc \in {"except", "print", "done"}
          /\ epc # "except" => result = <<Failure(exception[1])>>
    /\ epc = "parse" => pc \in {"loop", "done"}
    /\ epc # "done" =>
          \/ epc = "validate" /\ vpc \in {"isabs", "resolve", "inroot", "isfile"}
          \/ ENABLED (Main \/ Validated \/ Convert \/ CountPages \/ CheckBlank
                         \/ HeadingLine \/ ContentLine \/ Return \/ Package
                         \/ Except \/ PrintResult)
    /\ epc = "done" =>
          /\ Len(printed) = 1
          /\ Len(argv) = 1 => printed = result
          /\ Len(argv) # 1 => printed = <<Failure(MsgUsage)>> /\ result = <<>>
    /\ epc # "done" => printed = <<>>

ResultEnvelopeWitness ==
    /\ epc = "done"
    /\ calls = <<"validate_path", "to_markdown", "open">>
    /\ extracted # <<>>
    /\ exception = <<<<"e">>>>
    /\ printed = <<Failure(<<"e">>)>>
====
